---- MODULE Spec2Model ----
(***************************************************************************)
(* The HTML document model of htmler (src/projects/htmler/src/html/mod.rs) *)
(* and the Markdown extraction of zhihu-link (answers/mod.rs,              *)
(* zhuanlans/mod.rs).                                                      *)
(*                                                                         *)
(* Html is {errors, quirks_mode, tree}.  The tree is an ego_tree arena: a  *)
(* vector of node values addressed by index (node 1 is the root), with     *)
(* parent and ordered child links.  Tree::nodes() walks the vector in      *)
(* index order; HtmlSelect filters that walk from either end.              *)
(***************************************************************************)
EXTENDS Integers, Sequences, FiniteSets, TLC

VARIABLES errors, quirks_mode, tree, pc, iter, rootRes, md

vars == <<errors, quirks_mode, tree, pc, iter, rootRes, md>>

(* ---- bounds ---- *)
(* nodes in the arena, root included: in the query specifications, and in *)
(* the specification with diagnostics                                     *)
MaxNodes == 4
MaxSinkNodes == 3
MaxErrors == 2
(* children of one p or span in the Markdown extraction's inputs *)
MaxKids == 2

ElementNames == {"p"}
Selectors == {"p", "any"}
Messages == {"m1", "m2"}
QuirksModes == {"NoQuirks", "LimitedQuirks", "Quirks"}

Root == 1

(* ---- NodeKind values ---- *)
Value(k, n) == [kind |-> k, name |-> n]
Element(n) == Value("Element", n)
is_element(v) == v.kind = "Element"

(* ---- ego_tree::Tree ---- *)
TreeNew(v) == [vec |-> <<v>>, parent |-> <<0>>, children |-> << <<>> >>]

Ids(t) == 1..Len(t.vec)

RECURSIVE Ancestors(_, _)
Ancestors(t, n) ==
  IF t.parent[n] = 0 THEN {} ELSE {t.parent[n]} \cup Ancestors(t, t.parent[n])

Remove(s, x) == SelectSeq(s, LAMBDA y : y # x)

IndexOf(s, x) == CHOOSE i \in 1..Len(s) : s[i] = x

InsertAt(s, i, x) == SubSeq(s, 1, i - 1) \o <<x>> \o SubSeq(s, i, Len(s))

(* Tree::orphan: a new node with no parent. *)
Orphan(t, v) ==
  [vec |-> Append(t.vec, v),
   parent |-> Append(t.parent, 0),
   children |-> Append(t.children, <<>>)]

(* NodeMut::detach: unlink the node from its parent, keeping its subtree. *)
Detach(t, n) ==
  IF t.parent[n] = 0 THEN t
  ELSE [t EXCEPT !.children[t.parent[n]] = Remove(@, n), !.parent[n] = 0]

(* NodeMut::append_id: detach the child, then link it as the last child. *)
AppendId(t, p, c) ==
  LET d == Detach(t, c)
  IN [d EXCEPT !.children[p] = Append(@, c), !.parent[c] = p]

(* NodeMut::insert_id_before: link the node right before the sibling. *)
InsertIdBefore(t, sib, c) ==
  LET d == Detach(t, c)
      p == d.parent[sib]
  IN [d EXCEPT !.children[p] = InsertAt(@, IndexOf(@, sib), c), !.parent[c] = p]

NewId(t) == Len(t.vec) + 1

CanHoldChildren(t, p) == t.vec[p].kind \in {"Document", "Fragment", "Element"}

(* ---- Html::new_document / Html::new_fragment ---- *)
NoIter == [active |-> FALSE, inner |-> <<>>, selector |-> "any",
           fwd |-> <<>>, back |-> <<>>, seen |-> {}, last |-> "-"]
NoRoot == [called |-> FALSE, ok |-> FALSE, node |-> 0]

(* mutant: a document that starts in quirks mode *)
new_document_quirks == [errors |-> <<>>, quirks_mode |-> "Quirks",
                        tree |-> TreeNew(Value("Document", ""))]
new_document == [errors |-> <<>>, quirks_mode |-> "NoQuirks",
                 tree |-> TreeNew(Value("Document", ""))]
(* mutant: a fragment whose root is an ordinary element *)
new_fragment_element_root == [errors |-> <<>>, quirks_mode |-> "NoQuirks",
                              tree |-> TreeNew(Element("p"))]
new_fragment == [errors |-> <<>>, quirks_mode |-> "NoQuirks",
                 tree |-> TreeNew(Value("Fragment", ""))]

(* ---- zhihu-link: the content subtree handed to read_content_node ---- *)
MdNode(k, n, txt, cls, tex, kids) ==
  [kind |-> k, name |-> n, text |-> txt, classes |-> cls, tex |-> tex, children |-> kids]
MdText(txt) == MdNode("Text", "", txt, <<>>, <<>>, <<>>)
MdElement(n, cls, tex, kids) == MdNode("Element", n, <<>>, cls, tex, kids)

(* Strings are sequences of characters. *)
IsSpace(c) == c \in {" ", "\n"}

RECURSIVE trim_start(_)
trim_start(s) ==
  IF s # <<>> /\ IsSpace(Head(s)) THEN trim_start(Tail(s)) ELSE s

RECURSIVE trim_end(_)
trim_end(s) ==
  IF s # <<>> /\ IsSpace(s[Len(s)]) THEN trim_end(SubSeq(s, 1, Len(s) - 1)) ELSE s

(* str::trim *)
trim(s) == trim_end(trim_start(s))

(* str::contains("ztext-math") on the class names of the inputs *)
contains_ztext_math(c) == c \in {"ztext-math", "xztext-math"}

(* Element::has_class("ztext-math"): one of the classes is exactly that name *)
has_class_ztext_math(cls) == \E i \in 1..Len(cls) : cls[i] = "ztext-math"

(* " $$" + data-tex + "$$ ", or nothing without the attribute (tex = <<>>) *)
push_tex(content, tex) ==
  IF tex = <<>> THEN content
  ELSE content \o <<" ", "$", "$">> \o tex \o <<"$", "$", " ">>

(* ZhihuAnswer::read_content_node: content after the call.  A span runs its *)
(* body once per class.                                                     *)
RECURSIVE ZhihuAnswer_read_content_node(_, _)
RECURSIVE AnswerChildren(_, _)
RECURSIVE AnswerClasses(_, _, _)
AnswerChildren(content, kids) ==
  IF kids = <<>> THEN content
  ELSE AnswerChildren(ZhihuAnswer_read_content_node(content, Head(kids)), Tail(kids))

AnswerClasses(content, node, cls) ==
  IF cls = <<>> THEN content
  ELSE AnswerClasses(
         IF contains_ztext_math(Head(cls))
         THEN push_tex(content, node.tex)
         ELSE AnswerChildren(content, node.children),
         node, Tail(cls))

ZhihuAnswer_read_content_node(content, node) ==
  CASE node.kind = "Text" -> content \o trim(node.text)
    [] node.kind = "Element" /\ node.name = "p" ->
         AnswerChildren(content, node.children) \o <<"\n", "\n">>
    [] node.kind = "Element" /\ node.name = "span" ->
         AnswerClasses(content, node, node.classes)
    [] OTHER -> content

(* ZhihuArticle::read_content_node: content after the call.  (Its br and   *)
(* figure arms are outside the inputs, which hold p, span and text only.)  *)
RECURSIVE ZhihuArticle_read_content_node(_, _)
RECURSIVE ArticleChildren(_, _)
ArticleChildren(content, kids) ==
  IF kids = <<>> THEN content
  ELSE ArticleChildren(ZhihuArticle_read_content_node(content, Head(kids)), Tail(kids))

ZhihuArticle_read_content_node(content, node) ==
  CASE node.kind = "Text" -> content \o trim(node.text)
    [] node.kind = "Element" /\ node.name = "p" ->
         ArticleChildren(content, node.children) \o <<"\n", "\n">>
    [] node.kind = "Element" /\ node.name = "span" ->
         IF has_class_ztext_math(node.classes)
         THEN push_tex(content, node.tex)
         ELSE ArticleChildren(content, node.children)
    [] OTHER -> content

(* The inputs: text nodes, spans of text nodes, and paragraphs of both. *)
Texts == {<<"x">>, <<" ", "y", " ">>}
ClassLists == {<<>>, <<"foo">>, <<"foo", "bar">>, <<"ztext-math">>,
               <<"foo", "ztext-math">>, <<"xztext-math">>}
TexValues == {<<>>, <<"t">>}

SeqsUpTo(S, n) == UNION {[1..k -> S] : k \in 0..n}

MdTexts == {MdText(t) : t \in Texts}
MdSpans == {MdElement("span", c, x, k) :
              c \in ClassLists, x \in TexValues, k \in SeqsUpTo(MdTexts, MaxKids)}
MdParagraphs == {MdElement("p", <<>>, <<>>, k) :
                   k \in SeqsUpTo(MdTexts \cup MdSpans, MaxKids)}
MdInputs == MdTexts \cup MdSpans \cup MdParagraphs

(* ZhihuAnswer::new and ZhihuArticle::default: both contents empty *)
NoMd == [node |-> MdText(<<>>), answer |-> <<>>, article |-> <<>>,
         answered |-> FALSE, articled |-> FALSE]

Init ==
  /\ md = NoMd
  /\ \E h \in {new_document, new_fragment} :
       /\ errors = h.errors
       /\ quirks_mode = h.quirks_mode
       /\ tree = h.tree
  /\ pc = "build"
  /\ iter = NoIter
  /\ rootRes = NoRoot

(* ---- TreeSink: the construction contract ---- *)
set_quirks_mode(mode) ==
  /\ pc = "build"
  /\ quirks_mode' = mode
  /\ UNCHANGED <<md, errors, tree, pc, iter, rootRes>>

parse_error(msg) ==
  /\ pc = "build"
  /\ Len(errors) < MaxErrors
  /\ errors' = Append(errors, msg)
  /\ UNCHANGED <<md, quirks_mode, tree, pc, iter, rootRes>>

create_element(name, cap) ==
  /\ pc = "build"
  /\ Len(tree.vec) < cap
  /\ tree' = Orphan(tree, Element(name))
  /\ UNCHANGED <<md, errors, quirks_mode, pc, iter, rootRes>>

(* append(parent, AppendNode(child)) *)
append_child(p, c) ==
  /\ pc = "build"
  /\ CanHoldChildren(tree, p)
  /\ c # Root /\ c # p /\ c \notin Ancestors(tree, p)
  /\ tree' = AppendId(tree, p, c)
  /\ UNCHANGED <<md, errors, quirks_mode, pc, iter, rootRes>>

(* append(parent, AppendText(..)) and the comment nodes the tokenizer attaches *)
append_child_new(p, k, cap) ==
  /\ pc = "build"
  /\ Len(tree.vec) < cap
  /\ CanHoldChildren(tree, p)
  /\ tree' = AppendId(Orphan(tree, Value(k, "")), p, NewId(tree))
  /\ UNCHANGED <<md, errors, quirks_mode, pc, iter, rootRes>>

append_before_sibling(sib, c) ==
  /\ pc = "build"
  /\ tree.parent[sib] # 0
  /\ c # Root /\ c # sib /\ c \notin Ancestors(tree, sib)
  /\ tree' = InsertIdBefore(tree, sib, c)
  /\ UNCHANGED <<md, errors, quirks_mode, pc, iter, rootRes>>

append_doctype(cap) ==
  /\ pc = "build"
  /\ Len(tree.vec) < cap
  /\ tree' = AppendId(Orphan(tree, Value("Doctype", "html")), Root, NewId(tree))
  /\ UNCHANGED <<md, errors, quirks_mode, pc, iter, rootRes>>

(* TreeSink::finish: the parser hands the Html back; it is only read afterwards. *)
finish ==
  /\ pc = "build"
  /\ pc' = "query"
  /\ UNCHANGED <<md, errors, quirks_mode, tree, iter, rootRes>>

(* ---- Node::wrap and Selector::matches ---- *)
(* htmler's Node is a handle to a node of any kind. *)
wrap(t, n) == TRUE

(* The match test: a type selector accepts the elements of that name; "any" *)
(* stands for a selector whose test accepts every node it is given.         *)
matches(sel, v) == sel = "any" \/ (is_element(v) /\ v.name = sel)

(* ---- Html::select ---- *)
(* Tree::nodes(): every node of the arena, in index order. *)
nodes(t) == [i \in 1..Len(t.vec) |-> i]

HtmlSelect(t, sel) ==
  [active |-> TRUE, inner |-> nodes(t), selector |-> sel,
   fwd |-> <<>>, back |-> <<>>, seen |-> {}, last |-> "-"]

select(sel) ==
  /\ pc = "query"
  /\ iter' = HtmlSelect(tree, sel)
  /\ UNCHANGED <<md, errors, quirks_mode, tree, pc, rootRes>>

(* mutant: the parent test left out *)
AcceptsAnyNode(t, sel, n) == wrap(t, n) /\ matches(sel, t.vec[n])

Accepts(t, sel, n) == wrap(t, n) /\ t.parent[n] # 0 /\ matches(sel, t.vec[n])

(* mutant: give up at the first node that is not accepted *)
ScanFrontStop(t, sel, inner) ==
  IF inner = <<>> THEN [ret |-> 0, inner |-> <<>>]
  ELSE IF Accepts(t, sel, Head(inner))
       THEN [ret |-> Head(inner), inner |-> Tail(inner)]
       ELSE [ret |-> 0, inner |-> Tail(inner)]

(* HtmlSelect::next: pull nodes from the front of inner until one is accepted. *)
(* ret = 0 is None.                                                            *)
RECURSIVE ScanFront(_, _, _)
ScanFront(t, sel, inner) ==
  IF inner = <<>> THEN [ret |-> 0, inner |-> <<>>]
  ELSE IF Accepts(t, sel, Head(inner))
       THEN [ret |-> Head(inner), inner |-> Tail(inner)]
       ELSE ScanFront(t, sel, Tail(inner))

(* mutant: the .rev() left out, so next_back scans from the front *)
ScanBackFromFront(t, sel, inner) == ScanFront(t, sel, inner)

(* HtmlSelect::next_back: the same from the back of inner. *)
RECURSIVE ScanBack(_, _, _)
ScanBack(t, sel, inner) ==
  IF inner = <<>> THEN [ret |-> 0, inner |-> <<>>]
  ELSE LET n == inner[Len(inner)]
           rest == SubSeq(inner, 1, Len(inner) - 1)
       IN IF Accepts(t, sel, n)
          THEN [ret |-> n, inner |-> rest]
          ELSE ScanBack(t, sel, rest)

Range(s) == {s[i] : i \in 1..Len(s)}

HtmlSelect_next ==
  /\ pc = "query"
  /\ iter.active
  /\ LET r == ScanFront(tree, iter.selector, iter.inner)
     IN iter' = [iter EXCEPT
                   !.inner = r.inner,
                   !.fwd = IF r.ret # 0 THEN Append(@, r.ret) ELSE @,
                   !.seen = @ \cup (Range(iter.inner) \ Range(r.inner)),
                   !.last = IF r.ret # 0 THEN "Some" ELSE "None"]
  /\ UNCHANGED <<md, errors, quirks_mode, tree, pc, rootRes>>

HtmlSelect_next_back ==
  /\ pc = "query"
  /\ iter.active
  /\ LET r == ScanBack(tree, iter.selector, iter.inner)
     IN iter' = [iter EXCEPT
                   !.inner = r.inner,
                   !.back = IF r.ret # 0 THEN Append(@, r.ret) ELSE @,
                   !.seen = @ \cup (Range(iter.inner) \ Range(r.inner)),
                   !.last = IF r.ret # 0 THEN "Some" ELSE "None"]
  /\ UNCHANGED <<md, errors, quirks_mode, tree, pc, rootRes>>

(* mutant: the inner iterator's hint passed through unchanged *)
size_hint_inner(it) == <<Len(it.inner), Len(it.inner)>>

(* HtmlSelect::size_hint *)
size_hint(it) == <<0, Len(it.inner)>>

(* ---- Html::root_element ---- *)
(* mutant: only the first child is looked at *)
FindFirstChildOnly(t, kids) ==
  IF kids = <<>> THEN 0
  ELSE IF is_element(t.vec[Head(kids)]) THEN Head(kids) ELSE 0

(* children().find(is_element): the first child accepted, 0 when there is none *)
RECURSIVE Find(_, _)
Find(t, kids) ==
  IF kids = <<>> THEN 0
  ELSE IF is_element(t.vec[Head(kids)]) THEN Head(kids)
       ELSE Find(t, Tail(kids))

(* mutant: the root itself handed back when no element child is found *)
RootElementOrRoot(t) ==
  LET f == Find(t, t.children[Root])
  IN [called |-> TRUE, ok |-> TRUE, node |-> IF f = 0 THEN Root ELSE f]

(* expect("html node missing") panics on None: ok = FALSE, no node. *)
RootElementOf(t) ==
  LET f == Find(t, t.children[Root])
  IN IF f = 0 THEN [called |-> TRUE, ok |-> FALSE, node |-> 0]
     ELSE [called |-> TRUE, ok |-> TRUE, node |-> f]

root_element ==
  /\ pc = "query"
  /\ rootRes' = RootElementOf(tree)
  /\ UNCHANGED <<md, errors, quirks_mode, tree, pc, iter>>

(* ---- specifications ---- *)
(* cap bounds the arena: the operations that allocate a node stop there. *)
Build(cap) ==
  \/ \E n \in ElementNames : create_element(n, cap)
  \/ \E p \in Ids(tree), c \in Ids(tree) : append_child(p, c)
  \/ \E p \in Ids(tree), k \in {"Text", "Comment"} : append_child_new(p, k, cap)
  \/ \E s \in Ids(tree), c \in Ids(tree) : append_before_sibling(s, c)
  \/ append_doctype(cap)
  \/ finish

(* The tree builder with its diagnostics, and the root-element lookup. *)
Next ==
  \/ Build(MaxSinkNodes)
  \/ \E m \in QuirksModes : set_quirks_mode(m)
  \/ \E m \in Messages : parse_error(m)
  \/ root_element

Spec == Init /\ [][Next]_vars

(* The tree builder on input that raises no diagnostics, and the queries. *)
NextSelect ==
  \/ Build(MaxNodes)
  \/ \E s \in Selectors : select(s)
  \/ HtmlSelect_next
  \/ HtmlSelect_next_back

SpecSelect == Init /\ [][NextSelect]_vars

(* The tree builder on input that raises no diagnostics, and the lookup. *)
NextRoot ==
  \/ Build(MaxNodes)
  \/ root_element

SpecRoot == Init /\ [][NextRoot]_vars

(* ---- the Markdown extraction of one content subtree, by both readers ---- *)
InitMd ==
  /\ errors = new_document.errors
  /\ quirks_mode = new_document.quirks_mode
  /\ tree = new_document.tree
  /\ pc = "build"
  /\ iter = NoIter
  /\ rootRes = NoRoot
  /\ \E n \in MdInputs : md = [NoMd EXCEPT !.node = n]

answer_read ==
  /\ ~md.answered
  /\ md' = [md EXCEPT !.answer = ZhihuAnswer_read_content_node(@, md.node),
                       !.answered = TRUE]
  /\ UNCHANGED <<errors, quirks_mode, tree, pc, iter, rootRes>>

article_read ==
  /\ ~md.articled
  /\ md' = [md EXCEPT !.article = ZhihuArticle_read_content_node(@, md.node),
                       !.articled = TRUE]
  /\ UNCHANGED <<errors, quirks_mode, tree, pc, iter, rootRes>>

NextMd == answer_read \/ article_read

SpecMd == InitMd /\ [][NextMd]_vars

(* ======================= properties ======================= *)
Reverse(s) == [i \in 1..Len(s) |-> s[Len(s) + 1 - i]]

RECURSIVE Flatten(_)
Flatten(ss) == IF ss = <<>> THEN <<>> ELSE Head(ss) \o Flatten(Tail(ss))

(* The pre-order, depth-first walk of the subtree of n. *)
RECURSIVE PreOrder(_, _)
PreOrder(t, n) ==
  <<n>> \o Flatten([i \in 1..Len(t.children[n]) |-> PreOrder(t, t.children[n][i])])

DocumentOrder == PreOrder(tree, Root)

Eligible == {n \in Ids(tree) : Accepts(tree, iter.selector, n)}
Yielded == Range(iter.fwd) \cup Range(iter.back)
Exhausted == iter.active /\ iter.inner = <<>>

(* C1: forward iteration of Html::select yields the matching nodes in       *)
(* document order (the pre-order, depth-first walk from the root): of two   *)
(* nodes of the document that next yields, the one yielded first comes      *)
(* first in the walk.                                                       *)
C1_ForwardIsDocumentOrder ==
  iter.active =>
    \A i, j \in 1..Len(iter.fwd) :
      (/\ i < j
       /\ iter.fwd[i] \in Range(DocumentOrder)
       /\ iter.fwd[j] \in Range(DocumentOrder))
      => IndexOf(DocumentOrder, iter.fwd[i]) < IndexOf(DocumentOrder, iter.fwd[j])

(* The list a fresh iterator yields when drained from the front. *)
RECURSIVE DrainFront(_, _, _)
DrainFront(t, sel, inner) ==
  LET r == ScanFront(t, sel, inner)
  IN IF r.ret = 0 THEN <<>> ELSE <<r.ret>> \o DrainFront(t, sel, r.inner)

(* C2: an iterator drained from the back alone has yielded exactly the      *)
(* reverse of the list a fresh iterator over the same selector yields from  *)
(* the front: same nodes, same multiplicity, opposite order.                *)
C2_BackIsReverseOfFront ==
  (Exhausted /\ iter.last = "None" /\ iter.fwd = <<>>)
    => iter.back = Reverse(DrainFront(tree, iter.selector, nodes(tree)))

C2_Witness ==
  /\ Exhausted /\ iter.last = "None" /\ iter.fwd = <<>>
  /\ Len(iter.back) >= 2
  /\ Len(iter.back) < Len(tree.vec)

(* C3: every node Html::select yields, from either end, has a parent: the   *)
(* root is never yielded, nor is a node that was created and never          *)
(* attached.                                                                *)
C3_YieldedHasParent ==
  iter.active =>
    \A n \in Yielded :
      /\ tree.parent[n] # 0
      /\ n # Root
      /\ tree.vec[n].kind \notin {"Document", "Fragment"}

C3_Witness ==
  /\ Exhausted
  /\ iter.selector = "any"
  /\ iter.fwd # <<>> /\ iter.back # <<>>
  /\ \E n \in Ids(tree) : n # Root /\ tree.parent[n] = 0

RootKids == tree.children[Root]
HasElementChild == \E i \in 1..Len(RootKids) : is_element(tree.vec[RootKids[i]])

(* C4: Html::root_element returns the first child of the root, in child     *)
(* order, whose kind is Element; children of other kinds before it neither  *)
(* block the lookup nor are returned.                                       *)
C4_RootElementIsFirstElementChild ==
  (rootRes.called /\ HasElementChild) =>
    /\ rootRes.ok
    /\ \E i \in 1..Len(RootKids) :
         /\ RootKids[i] = rootRes.node
         /\ is_element(tree.vec[RootKids[i]])
         /\ \A j \in 1..(i - 1) : ~is_element(tree.vec[RootKids[j]])

C4_Witness ==
  /\ rootRes.called /\ rootRes.ok
  /\ Len(RootKids) >= 2
  /\ rootRes.node = RootKids[2]
  /\ tree.vec[RootKids[1]].kind \in {"Doctype", "Comment", "Text"}

(* C5: when the root has no Element child, Html::root_element fails (the    *)
(* lookup finds nothing and the call ends in "html node missing") and       *)
(* returns no node.                                                         *)
C5_RootElementMissing ==
  (rootRes.called /\ ~HasElementChild) => (~rootRes.ok /\ rootRes.node = 0)

C5_Witness ==
  /\ rootRes.called /\ ~rootRes.ok
  /\ RootKids # <<>>
  /\ \E n \in Ids(tree) : is_element(tree.vec[n])

Count(s, x) == Cardinality({i \in 1..Len(s) : s[i] = x})

LinksAgree ==
  \A p \in Ids(tree), n \in Ids(tree) :
    /\ Count(tree.children[p], n) <= 1
    /\ (Count(tree.children[p], n) = 1) <=> (tree.parent[n] = p)

OneRoot ==
  /\ tree.vec[Root].kind \in {"Document", "Fragment"}
  /\ tree.parent[Root] = 0
  /\ \A n \in Ids(tree) \ {Root} : tree.vec[n].kind \notin {"Document", "Fragment"}

(* C6 as stated: one Document/Fragment root, every other node of the arena  *)
(* has a parent, and parent and child links agree.                          *)
C6_EveryNodeHasParent ==
  /\ OneRoot
  /\ \A n \in Ids(tree) \ {Root} : tree.parent[n] # 0
  /\ LinksAgree

(* C6 amended: one Document/Fragment root; every node in the document (in   *)
(* the walk from the root) other than the root has a parent, which is in    *)
(* the document too; a node outside the document is parentless or hangs     *)
(* under a created, not yet attached element; no node is its own ancestor;  *)
(* and parent and child links agree.                                        *)
C6_TreeValid ==
  /\ OneRoot
  /\ LinksAgree
  /\ \A n \in Range(DocumentOrder) \ {Root} :
       tree.parent[n] # 0 /\ tree.parent[n] \in Range(DocumentOrder)
  /\ \A n \in Ids(tree) \ Range(DocumentOrder) :
       \/ tree.parent[n] = 0
       \/ tree.parent[n] \notin Range(DocumentOrder)
  /\ \A n \in Ids(tree) : tree.parent[n] # n

C6_Witness ==
  /\ Len(tree.vec) = MaxNodes
  /\ \E n \in Ids(tree) : n # Root /\ tree.parent[n] = 0
  /\ \E n \in Ids(tree) : tree.parent[n] = Root

(* C7: parse diagnostics are append-only and never stop construction: a     *)
(* tree starts with no errors and NoQuirks; parse_error(m) appends m as the *)
(* last entry and no step changes an earlier entry; whatever errors holds,  *)
(* the builder operations stay enabled while building and select and        *)
(* root_element afterwards.                                                 *)
C7_DiagnosticsAppendOnly ==
  /\ (errors = <<>> /\ quirks_mode = "NoQuirks")
  /\ [][\/ errors' = errors
        \/ \E m \in Messages :
             /\ parse_error(m)
             /\ errors' = Append(errors, m)
             /\ pc' = pc /\ tree' = tree /\ quirks_mode' = quirks_mode]_vars
  /\ [](pc \in {"build", "query"})
  /\ [](pc = "build" =>
          /\ ENABLED finish
          /\ \A m \in QuirksModes : ENABLED set_quirks_mode(m)
          /\ (Len(tree.vec) < MaxSinkNodes =>
                /\ \A n \in ElementNames : ENABLED create_element(n, MaxSinkNodes)
                /\ ENABLED append_doctype(MaxSinkNodes)
                /\ ENABLED append_child_new(Root, "Text", MaxSinkNodes)))
  /\ [](pc = "query" =>
          /\ ENABLED root_element
          /\ \A s \in Selectors : ENABLED select(s))

C7_Witness ==
  /\ errors = <<"m2", "m1">>
  /\ Len(tree.vec) = MaxSinkNodes
  /\ rootRes.called /\ rootRes.ok

(* C8: at every point of an iteration size_hint is (0, u) with u the number *)
(* of nodes of the unfiltered traversal not consumed yet, and u is at least *)
(* the number of matches still to be yielded.                               *)
C8_SizeHint ==
  iter.active =>
    /\ size_hint(iter)[1] = 0
    /\ size_hint(iter)[2] = Cardinality(Ids(tree) \ iter.seen)
    /\ size_hint(iter)[2] >= Cardinality(Eligible \ Yielded)

C8_Witness ==
  /\ iter.active
  /\ iter.fwd # <<>> /\ iter.back # <<>>
  /\ size_hint(iter)[2] > Cardinality(Eligible \ Yielded)
  /\ size_hint(iter)[2] > 0

Increasing(s) == \A i, j \in 1..Len(s) : i < j => s[i] < s[j]
Decreasing(s) == \A i, j \in 1..Len(s) : i < j => s[i] > s[j]

IterStep == HtmlSelect_next \/ HtmlSelect_next_back

(* C9: under any interleaving of next and next_back on one iterator, every  *)
(* eligible match is yielded exactly once (never by both ends, never        *)
(* skipped), next yields in the traversal's order and next_back in its      *)
(* reverse, every call either yields and shrinks what is left or returns    *)
(* None with nothing left, and once nothing is left every call returns None.*)
C9_DoubleEnded ==
  /\ [](iter.active =>
          /\ Yielded \subseteq Eligible
          /\ Cardinality(Yielded) = Len(iter.fwd) + Len(iter.back)
          /\ Eligible \ Yielded \subseteq Range(iter.inner)
          /\ Increasing(iter.fwd) /\ Decreasing(iter.back)
          /\ \A a \in Range(iter.fwd), b \in Range(iter.back) : a < b
          /\ (iter.inner = <<>> /\ iter.last = "None" => Yielded = Eligible))
  /\ [][IterStep =>
          /\ \/ /\ iter'.last = "Some"
                /\ Len(iter'.inner) < Len(iter.inner)
                /\ Len(iter'.fwd) + Len(iter'.back) = Len(iter.fwd) + Len(iter.back) + 1
             \/ /\ iter'.last = "None"
                /\ iter'.inner = <<>>
                /\ iter'.fwd = iter.fwd /\ iter'.back = iter.back
          /\ (iter.inner = <<>> => iter'.last = "None")]_vars

C9_Witness ==
  /\ Exhausted /\ iter.last = "None"
  /\ Len(iter.fwd) >= 1 /\ Len(iter.back) >= 1
  /\ Cardinality(Eligible) < Len(tree.vec) - 1

RECURSIVE NoMathSpan(_)
NoMathSpan(node) ==
  /\ \A i \in 1..Len(node.classes) : ~contains_ztext_math(node.classes[i])
  /\ \A i \in 1..Len(node.children) : NoMathSpan(node.children[i])

(* C10: on a content subtree of p, span and text nodes in which no span is  *)
(* a math span (no class of it names ztext-math), every span contributes    *)
(* its children once whatever its classes, so                               *)
(* ZhihuAnswer::read_content_node and ZhihuArticle::read_content_node       *)
(* append the same text.                                                    *)
C10_ReadersAgree ==
  (md.answered /\ md.articled /\ NoMathSpan(md.node)) => md.answer = md.article
====
